---- MODULE Spec2Model ----
(***************************************************************************)
(* Model of the pipeline execution engine (src/app/pipeline_engine.py) and *)
(* of the pipeline scheduler (src/app/scheduler.py).                       *)
(*                                                                         *)
(* Every asyncio task is a process whose position pc names the await at    *)
(* which it is suspended; the code between two awaits is one atomic        *)
(* action.  A call of the persistence layer takes effect when it is made   *)
(* and the task is then suspended until the call returns.                  *)
(***************************************************************************)
EXTENDS Integers, Sequences, FiniteSets, TLC

\* ------------------------------------------------------------------ bounds
\* Number of executions that may be created in one behaviour.
MaxExec == 3
\* settings.max_concurrent_executions (src/config.py:25, default 5, read from
\* the environment), scaled down so that the limiter is reached.
Capacity == 2
\* Largest max_retries of a step.
MaxRetries == 3
\* Largest number of steps of a pipeline.
MaxSteps == 2
\* Number of step names.
NumNames == 2
\* Largest number of steps of a pipeline whose steps share names.
MaxNamedSteps == 4
\* Number of cancel_execution calls that find their id in one behaviour.
MaxCancels == 1
\* Number of different errors a step may raise.
NumErrors == 2

\* Number of pipelines.
NumPipelines == 2
\* Number of ScheduledJob objects alive at a time.
MaxJobObjs == 3
\* Number of steps the clock makes in one behaviour.
MaxTocks == 3
\* Number of calls made to the scheduler after start() in one behaviour.
MaxApiCalls == 2
\* Number of consecutive seconds the clock is drawn from when the recurrence
\* calculation is checked.
RecurSeconds == 120
\* Largest number of intervals looked for between the truncated anchor and
\* next_run.
RecurMaxK == 2
\* Number of half hours the clock of the engine advances.
MaxWait == 4

ExecIds == 1..MaxExec

\* The errors a step may raise, told apart by their message.  Only whether
\* two errors are the same matters: the k-th failure of a step raises one of
\* the first k errors.
Errors == 1..NumErrors

PipelineIds == 1..NumPipelines

JobIds == 1..MaxJobObjs

\* Seconds in timedelta(minutes=1), (hours=1), (days=1), (weeks=1).
Minute == 60
Hour == 3600
Day == 86400
Week == 604800

\* ------------------------------------------------------------ engine state
VARIABLES
    steps,               \* Pipeline.steps: the step list every execution runs
    calls_left,          \* execute_pipeline calls the callers still make
    nexec,               \* number of Execution objects created so far
    mem,                 \* the in-memory Execution object of each run task
    db,                  \* the persisted executions row of each execution
    pc,                  \* the await at which each run task is suspended
    must_cancel,         \* Task.cancel() was called and is not yet delivered
    running_executions,  \* PipelineEngine.running_executions (its keys)
    sem_value,           \* free slots of PipelineEngine.execution_semaphore
    waiters,             \* tasks created and not yet admitted, oldest first
    cpc,                 \* position of the cancel_execution call on each id
    ccopy,               \* the Execution that cancel_execution read
    ncancel,             \* number of cancel_execution calls that found their id
    cancel_at,           \* history: position of the task when cancel was called
    hist,                \* of the current step: the attempts and failures so
                         \* far, and the exception `e` caught at line 107
    datasets,            \* context["datasets"] of each run, in key order
    outputs              \* the datasets written out by the save steps

engine_vars == <<steps, calls_left, nexec, mem, db, pc, must_cancel,
                 running_executions, sem_value, waiters, cpc, ccopy, ncancel,
                 cancel_at, hist,
                 datasets, outputs>>

\* --------------------------------------------------------- scheduler state
VARIABLES
    now,            \* datetime.utcnow(), in seconds since 2024-01-01 00:00
    api_left,       \* calls the callers of the scheduler still make
    pipelines,      \* the stored pipelines: status and schedule
    jobs,           \* PipelineScheduler.jobs: its values, in dict order
    heap,           \* the ScheduledJob objects
    sched_running,  \* PipelineScheduler.running
    tick_pc,        \* the await at which the scheduler loop is suspended
    tick_now,       \* `now` of the running _check_and_execute_jobs
    todo,           \* the jobs of list(self.jobs.values()) not yet dealt with
    next_tick,      \* the time at which the sleep of the loop ends
    tick_did,       \* history: what the running tick did last, and to which job
    loop_tasks      \* number of _scheduler_loop tasks created and not ended

sched_vars == <<now, api_left, pipelines, jobs, heap, sched_running, tick_pc,
                tick_now, todo, next_tick, tick_did, loop_tasks>>

vars == <<engine_vars, sched_vars>>

\* --------------------------------------------------------------- the model
\* ExecutionStatus; "none" stands for an object or row that does not exist.
ExecutionStatus == {"pending", "running", "completed", "failed", "cancelled"}

TerminalStatus == {"completed", "failed", "cancelled"}

\* BaseStep: the fields the engine reads; SaveStep is the one variant whose
\* handler writes the persisted Execution.
StepNames == 1..NumNames

StepConfigs ==
    [enabled : BOOLEAN, retry_on_failure : BOOLEAN,
     max_retries : 0..MaxRetries, kind : {"load", "save"}, name : StepNames]

\* An error_message that is None.
NoError == [step |-> 0, error |-> 0]

\* str(StepExecutionError(f"Step {step.name} failed: {e}")), line 110.
StepExecutionError(k, err) == [step |-> k, error |-> err]

\* Execution(...) as execute_pipeline constructs it; a time stamp or duration
\* is FALSE while it is None.
NewExecution ==
    [status |-> "pending", start_time |-> FALSE, end_time |-> FALSE,
     duration |-> FALSE, steps |-> <<>>, error_message |-> NoError,
     output_files |-> <<>>]

NoExecution == [NewExecution EXCEPT !.status = "none"]

\* StepExecution(...) as _run_pipeline constructs it for step k; its
\* error_message is 0 while it is None and else the error raised.
NewStepExecution(k) ==
    [step |-> k, status |-> "running", end_time |-> FALSE,
     error_message |-> 0, retry_count |-> 0]

\* postgres_db.update_execution: UPDATE ... WHERE id = $1 sets every column
\* the model keeps; no row, no effect.  The row is the one the statement
\* stores once it is carried out: the encoding of the columns on their way
\* to the database is not part of the model.
UpdateExecution(rows, id, execution) ==
    IF rows[id].status = "none" THEN rows
    ELSE [rows EXCEPT ![id] =
            [status |-> execution.status,
             start_time |-> execution.start_time,
             end_time |-> execution.end_time,
             duration |-> execution.duration,
             steps |-> execution.steps,
             error_message |-> execution.error_message,
             output_files |-> execution.output_files]]

\* The step loop without the `continue` of line 89.
NextEnabled_NoSkip(k) == k

\* The first enabled step at or after position k, Len + 1 if there is none:
\* the `for step in pipeline.steps` loop with its `continue` on disabled steps.
RECURSIVE NextEnabled(_)
NextEnabled(k) ==
    IF k > Len(steps) THEN k
    ELSE IF steps[k].enabled THEN k ELSE NextEnabled(k + 1)

\* The StepExecution the task is working on: the last one appended.
Current(e) == mem[e].steps[Len(mem[e].steps)]

CurrentStep(e) == steps[Current(e).step]

\* An engine whose error handling works on the first StepExecution of the run.
SetCurrent_First(m, sx) == [m EXCEPT !.steps[1] = sx]

\* step_execution is the object appended last (lines 91-98); it is changed
\* in place.
SetCurrent(m, sx) == [m EXCEPT !.steps[Len(m.steps)] = sx]

\* _handle_step_error, lines 296-298.
RecordStepError(sx, err) ==
    [sx EXCEPT !.error_message = err,
               !.retry_count = @ + 1,
               !.status = "failed"]

\* Line 300 without the comparison with max_retries: a failing step is
\* re-attempted for ever.
ShouldRetry_Always(step, sx) == step.retry_on_failure

\* Line 300 with `<=` for `<`: one re-attempt too many.
ShouldRetry_OffByOne(step, sx) ==
    step.retry_on_failure /\ sx.retry_count <= step.max_retries

\* _handle_step_error, line 300.
ShouldRetry(step, sx) ==
    step.retry_on_failure /\ sx.retry_count < step.max_retries

\* Line 109 without the comparison with max_retries: any step that went
\* through _handle_step_error aborts the run.
MustAbort_AnyFailure(step, sx) ==
    ~step.retry_on_failure \/ sx.retry_count >= 1

\* An engine that goes on to the next step whatever the step did.
MustAbort_Never(step, sx) == FALSE

\* _run_pipeline, line 109.
MustAbort(step, sx) ==
    ~step.retry_on_failure \/ sx.retry_count >= step.max_retries

\* _handle_step_error, lines 307-309.
ResetForRetry(sx) ==
    [sx EXCEPT !.status = "running", !.error_message = 0]

\* lines 103-105 and 314-316.
CompleteStep(sx) ==
    [sx EXCEPT !.status = "completed", !.end_time = TRUE]

\* _run_pipeline, lines 115-117.
MarkCompleted(m) ==
    [m EXCEPT !.status = "completed", !.end_time = TRUE,
              !.duration = m.start_time]

\* _run_pipeline, lines 122-126, and _handle_execution_error, lines 322-327.
MarkFailed(m, msg) ==
    [m EXCEPT !.status = "failed", !.error_message = msg, !.end_time = TRUE,
              !.duration = m.start_time]

\* A cancel call that writes a row without the StepExecutions it read.
MarkCancelled_DropsSteps(m) ==
    [m EXCEPT !.status = "cancelled", !.end_time = TRUE,
              !.duration = m.start_time, !.steps = <<>>]

\* cancel_execution, lines 340-343.
MarkCancelled(m) ==
    [m EXCEPT !.status = "cancelled", !.end_time = TRUE,
              !.duration = m.start_time]

\* Positions at which the task is inside `async with self.execution_semaphore`.
InsideSemaphore ==
    {"start_w", "append_w", "step", "save_r", "save_w", "backoff", "step_w",
     "final_w", "err_w"}

\* Positions inside the try block of _run_pipeline (lines 84-112).
InsideTry == {"append_w", "step", "save_r", "save_w", "backoff", "step_w"}

\* A task that leaves without giving its slot back.
LeaveTask_KeepsSlot(e) ==
    /\ running_executions' = running_executions \ {e}
    /\ sem_value' = sem_value
    /\ pc' = [pc EXCEPT ![e] = "done"]

\* `finally: self.running_executions.pop(execution.id, None)` and the release
\* of the semaphore on leaving the `async with` block (lines 60-68).
LeaveTask(e) ==
    /\ running_executions' = running_executions \ {e}
    /\ sem_value' = sem_value + 1
    /\ pc' = [pc EXCEPT ![e] = "done"]

\* ------------------------------------------------------- recurrence: time
\* None, for a datetime or an interval that is not set.
None == 0 - 1

Range(q) == {q[i] : i \in 1..Len(q)}

\* A calculator that keeps the seconds of from_time.
TruncMinute_Identity(t) == t

\* datetime.replace(second=0, microsecond=0) and the coarser truncations.
TruncMinute(t) == t - (t % Minute)

TruncHour(t) == t - (t % Hour)

TruncDay(t) == t - (t % Day)

\* datetime.weekday(): 0 is Monday.
Weekday(t) == (t \div Day) % 7

IsLeap(y) == (y % 4 = 0 /\ y % 100 # 0) \/ y % 400 = 0

DaysInMonth(y, m) ==
    IF m \in {4, 6, 9, 11} THEN 30
    ELSE IF m = 2 THEN (IF IsLeap(y) THEN 29 ELSE 28)
    ELSE 31

\* The day, counted from 2024-01-01, on which month m of year y begins.
RECURSIVE MonthStartDay(_, _)
MonthStartDay(y, m) ==
    IF y = 2024 /\ m = 1 THEN 0
    ELSE IF m = 1 THEN MonthStartDay(y - 1, 12) + DaysInMonth(y - 1, 12)
    ELSE MonthStartDay(y, m - 1) + DaysInMonth(y, m - 1)

NextMonth(ym) == IF ym[2] = 12 THEN <<ym[1] + 1, 1>> ELSE <<ym[1], ym[2] + 1>>

\* <<year, month>> of day d.
RECURSIVE FindMonth(_, _)
FindMonth(ym, d) ==
    LET nx == NextMonth(ym) IN
    IF d < MonthStartDay(nx[1], nx[2]) THEN ym ELSE FindMonth(nx, d)

YearMonth(t) == FindMonth(<<2024, 1>>, t \div Day)

\* `while month > 12: month -= 12; year += 1` (lines 154-156).
RECURSIVE NormalizeMonth(_)
NormalizeMonth(ym) ==
    IF ym[2] > 12 THEN NormalizeMonth(<<ym[1] + 1, ym[2] - 12>>) ELSE ym

\* A calculator whose loop stops at next_run = now.
RECURSIVE AdvancePast_NotStrict(_, _, _)
AdvancePast_NotStrict(next_run, t, delta) ==
    IF next_run < t THEN AdvancePast_NotStrict(next_run + delta, t, delta)
    ELSE next_run

\* `while next_run <= now: next_run += timedelta(...)` (lines 115-116,
\* 125-126, 138-139).
RECURSIVE AdvancePast(_, _, _)
AdvancePast(next_run, t, delta) ==
    IF next_run <= t THEN AdvancePast(next_run + delta, t, delta)
    ELSE next_run

\* The monthly loop, lines 149-157, on <<year, month>> of next_run.
RECURSIVE AdvanceMonths(_, _, _)
AdvanceMonths(ym, t, interval) ==
    LET next_run == MonthStartDay(ym[1], ym[2]) * Day IN
    IF next_run <= t
    THEN AdvanceMonths(NormalizeMonth(<<ym[1], ym[2] + interval>>), t,
                       interval)
    ELSE next_run

\* A field of a cron expression: "*", a string of digits, or anything else.
Star == [kind |-> "star", n |-> 0]

Num(n) == [kind |-> "num", n |-> n]

Other == [kind |-> "other", n |-> 0]

\* A parser that reads a "*" minute next to a numeric hour as minute 0.
ParseCronExpression_StarMinute(parts, from_time) ==
    IF Len(parts) # 5 THEN None
    ELSE IF \A i \in 1..5 : parts[i] = Star
    THEN TruncMinute(from_time) + Minute
    ELSE IF parts[1].kind \in {"num", "star"} /\ parts[2].kind = "num"
    THEN IF parts[1].n > 59 \/ parts[2].n > 23 THEN None
         ELSE LET next_run == TruncDay(from_time) + parts[2].n * Hour
                               + parts[1].n * Minute
              IN  IF next_run <= from_time THEN next_run + Day ELSE next_run
    ELSE None

\* A parser that takes an hour:minute equal to from_time as still to come.
ParseCronExpression_NotStrict(parts, from_time) ==
    IF Len(parts) # 5 THEN None
    ELSE IF \A i \in 1..5 : parts[i] = Star
    THEN TruncMinute(from_time) + Minute
    ELSE IF parts[1].kind = "num" /\ parts[2].kind = "num"
    THEN IF parts[1].n > 59 \/ parts[2].n > 23 THEN None
         ELSE LET next_run == TruncDay(from_time) + parts[2].n * Hour
                               + parts[1].n * Minute
              IN  IF next_run < from_time THEN next_run + Day ELSE next_run
    ELSE None

\* _parse_cron_expression (lines 166-207) on the fields of the expression;
\* replace() raises ValueError on a minute or an hour out of range, which
\* the handler of line 205 turns into None.
ParseCronExpression(parts, from_time) ==
    IF Len(parts) # 5 THEN None
    ELSE IF \A i \in 1..5 : parts[i] = Star
    THEN TruncMinute(from_time) + Minute
    ELSE IF parts[1].kind = "num" /\ parts[2].kind = "num"
    THEN IF parts[1].n > 59 \/ parts[2].n > 23 THEN None
         ELSE LET next_run == TruncDay(from_time) + parts[2].n * Hour
                               + parts[1].n * Minute
              IN  IF next_run <= from_time THEN next_run + Day ELSE next_run
    ELSE None

\* ScheduleConfig; no schedule is a config of type "none".
NoSchedule ==
    [type |-> "none", start_time |-> None, end_time |-> None,
     interval |-> None, cron_expression |-> <<>>]

\* `schedule.interval or 1`.
IntervalOr1(schedule) ==
    IF schedule.interval = None \/ schedule.interval = 0 THEN 1
    ELSE schedule.interval

\* A calculator that returns the anchor for a once schedule: a start_time
\* that has passed is replaced by now.
CalculateNextRun_OnceAnchor(schedule, t) ==
    LET start_time ==
            IF schedule.start_time # None /\ schedule.start_time > t
            THEN schedule.start_time ELSE t
        interval == IntervalOr1(schedule)
    IN  IF schedule.end_time # None /\ start_time > schedule.end_time
        THEN None
        ELSE IF schedule.type = "once"
        THEN start_time
        ELSE IF schedule.type = "hourly"
        THEN AdvancePast(TruncHour(start_time), t, interval * Hour)
        ELSE IF schedule.type = "daily"
        THEN AdvancePast(TruncDay(start_time), t, interval * Day)
        ELSE IF schedule.type = "weekly"
        THEN AdvancePast(
                 TruncDay(start_time - Weekday(start_time) * Day), t,
                 interval * Week)
        ELSE IF schedule.type = "monthly"
        THEN AdvanceMonths(YearMonth(start_time), t, interval)
        ELSE IF schedule.type = "cron"
        THEN ParseCronExpression(schedule.cron_expression, t)
        ELSE None

\* _calculate_next_run (lines 96-164), t being datetime.utcnow().
CalculateNextRun(schedule, t) ==
    LET start_time ==
            IF schedule.start_time # None /\ schedule.start_time > t
            THEN schedule.start_time ELSE t
        interval == IntervalOr1(schedule)
    IN  IF schedule.end_time # None /\ start_time > schedule.end_time
        THEN None
        ELSE IF schedule.type = "once"
        THEN (IF schedule.start_time # None THEN schedule.start_time ELSE t)
        ELSE IF schedule.type = "hourly"
        THEN AdvancePast(TruncHour(start_time), t, interval * Hour)
        ELSE IF schedule.type = "daily"
        THEN AdvancePast(TruncDay(start_time), t, interval * Day)
        ELSE IF schedule.type = "weekly"
        THEN AdvancePast(
                 TruncDay(start_time - Weekday(start_time) * Day), t,
                 interval * Week)
        ELSE IF schedule.type = "monthly"
        THEN AdvanceMonths(YearMonth(start_time), t, interval)
        ELSE IF schedule.type = "cron"
        THEN ParseCronExpression(schedule.cron_expression, t)
        ELSE None

\* ------------------------------------------------------------ engine: Init
\* `started` is the time of line 73 (execution.start_time), None before it;
\* `calls` counts the calls of _execute_step for each StepExecution of the run.
NoHist ==
    [attempts |-> 0, failures |-> 0, caught |-> 0, started |-> None,
     calls |-> <<>>]

EngineInit(StepLists, calls) ==
    /\ steps \in StepLists
    /\ calls_left = calls
    /\ nexec = 0
    /\ mem = [e \in ExecIds |-> NoExecution]
    /\ db = [e \in ExecIds |-> NoExecution]
    /\ pc = [e \in ExecIds |-> "none"]
    /\ must_cancel = [e \in ExecIds |-> FALSE]
    /\ running_executions = {}
    /\ sem_value = Capacity
    /\ waiters = <<>>
    /\ cpc = [e \in ExecIds |-> "idle"]
    /\ ccopy = [e \in ExecIds |-> NoExecution]
    /\ ncancel = 0
    /\ cancel_at = [e \in ExecIds |-> "none"]
    /\ hist = [e \in ExecIds |-> NoHist]
    /\ datasets = [e \in ExecIds |-> <<>>]
    /\ outputs = [e \in ExecIds |-> <<>>]

\* --------------------------------------------------------- engine: actions
\* execute_pipeline (lines 35-56): the Execution is created pending and
\* persisted, the task is created and registered, and the call returns.
ExecuteEffect(e) ==
    /\ mem' = [mem EXCEPT ![e] = NewExecution]
    /\ db' = [db EXCEPT ![e] = NewExecution]
    /\ pc' = [pc EXCEPT ![e] = "pending"]
    /\ running_executions' = running_executions \cup {e}
    /\ waiters' = Append(waiters, e)
    /\ nexec' = e

\* execute_pipeline made to wait for a free slot of the limiter.
ExecutePipeline_WaitsForSlot ==
    /\ calls_left > 0
    /\ nexec < MaxExec
    /\ sem_value > 0
    /\ ExecuteEffect(nexec + 1)
    /\ calls_left' = calls_left - 1
    /\ UNCHANGED <<steps, must_cancel, sem_value, cpc, ccopy, ncancel,
                   cancel_at, hist>>
    /\ UNCHANGED <<datasets, outputs>>
    /\ UNCHANGED sched_vars

ExecutePipeline ==
    /\ calls_left > 0
    /\ nexec < MaxExec
    /\ ExecuteEffect(nexec + 1)
    /\ calls_left' = calls_left - 1
    /\ UNCHANGED <<steps, must_cancel, sem_value, cpc, ccopy, ncancel,
                   cancel_at, hist>>
    /\ UNCHANGED <<datasets, outputs>>
    /\ UNCHANGED sched_vars

\* The body of the step loop from position k on (lines 86-99), or, after the
\* last step, lines 115-117 followed by the write of the finally block.
LoopFrom(e, m, k) ==
    LET nxt == NextEnabled(k) IN
    IF nxt <= Len(steps)
    THEN LET m2 == [m EXCEPT !.steps = Append(@, NewStepExecution(nxt))] IN
         /\ mem' = [mem EXCEPT ![e] = m2]
         /\ db' = UpdateExecution(db, e, m2)
         /\ pc' = [pc EXCEPT ![e] = "append_w"]
         /\ hist' = [hist EXCEPT ![e] =
                        [NoHist EXCEPT !.started = hist[e].started,
                                       !.calls = Append(hist[e].calls, 0)]]
    ELSE LET m2 == MarkCompleted(m) IN
         /\ mem' = [mem EXCEPT ![e] = m2]
         /\ db' = UpdateExecution(db, e, m2)
         /\ pc' = [pc EXCEPT ![e] = "final_w"]
         /\ hist' = hist

\* A limiter that hands a free slot to any waiting task.
Admit_AnyWaiter(e) ==
    /\ pc[e] = "pending" /\ ~must_cancel[e]
    /\ sem_value > 0
    /\ e \in Range(waiters)
    /\ sem_value' = sem_value - 1
    /\ waiters' = SelectSeq(waiters, LAMBDA x : x # e)
    /\ LET m2 == [mem[e] EXCEPT !.status = "running", !.start_time = TRUE] IN
         /\ mem' = [mem EXCEPT ![e] = m2]
         /\ db' = UpdateExecution(db, e, m2)
    /\ pc' = [pc EXCEPT ![e] = "start_w"]
    /\ hist' = [hist EXCEPT ![e].started = now]
    /\ UNCHANGED <<steps, calls_left, nexec, must_cancel, running_executions,
                   cpc, ccopy, ncancel, cancel_at>>
    /\ UNCHANGED <<datasets, outputs>>
    /\ UNCHANGED sched_vars

\* _execute_pipeline_task acquires the semaphore (FIFO) and _run_pipeline
\* marks the Execution running and persists it (lines 60, 72-74).
Admit(e) ==
    /\ pc[e] = "pending" /\ ~must_cancel[e]
    /\ sem_value > 0
    /\ waiters # <<>> /\ Head(waiters) = e
    /\ sem_value' = sem_value - 1
    /\ waiters' = Tail(waiters)
    /\ LET m2 == [mem[e] EXCEPT !.status = "running", !.start_time = TRUE] IN
         /\ mem' = [mem EXCEPT ![e] = m2]
         /\ db' = UpdateExecution(db, e, m2)
    /\ pc' = [pc EXCEPT ![e] = "start_w"]
    /\ hist' = [hist EXCEPT ![e].started = now]
    /\ UNCHANGED <<steps, calls_left, nexec, must_cancel, running_executions,
                   cpc, ccopy, ncancel, cancel_at>>
    /\ UNCHANGED <<datasets, outputs>>
    /\ UNCHANGED sched_vars

\* The write of line 74 or of line 112 has returned: next iteration.
ContinueLoop(e) ==
    /\ pc[e] \in {"start_w", "step_w"} /\ ~must_cancel[e]
    /\ LoopFrom(e, mem[e],
                IF pc[e] = "start_w" THEN 1 ELSE Current(e).step + 1)
    /\ UNCHANGED <<steps, calls_left, nexec, must_cancel, running_executions,
                   sem_value, waiters, cpc, ccopy, ncancel, cancel_at>>
    /\ UNCHANGED <<datasets, outputs>>
    /\ UNCHANGED sched_vars

\* The write of line 99 has returned: _execute_step is called (line 102).
StartStep(e) ==
    /\ pc[e] = "append_w" /\ ~must_cancel[e]
    /\ pc' = [pc EXCEPT ![e] = "step"]
    /\ hist' = [hist EXCEPT ![e].attempts = @ + 1,
                             ![e].calls = [@ EXCEPT ![Len(@)] = @ + 1]]
    /\ UNCHANGED <<steps, calls_left, nexec, mem, db, must_cancel,
                   running_executions, sem_value, waiters, cpc, ccopy,
                   ncancel, cancel_at>>
    /\ UNCHANGED <<datasets, outputs>>
    /\ UNCHANGED sched_vars

\* The step has succeeded (lines 103-105 or 314-316).  A first attempt goes
\* on to line 112; a re-attempt returns from _handle_step_error into the
\* handler of line 107, where line 109 decides whether the run is aborted
\* (lines 121-132) or goes on to line 112.
StepDone(e) ==
    LET sx == CompleteStep(Current(e))
        m2 == SetCurrent(mem[e], sx)
    IN  IF sx.retry_count > 0 /\ MustAbort(CurrentStep(e), sx)
        THEN LET m3 == MarkFailed(m2, StepExecutionError(sx.step,
                                                          hist[e].caught))
             IN
             /\ mem' = [mem EXCEPT ![e] = m3]
             /\ db' = UpdateExecution(db, e, m3)
             /\ pc' = [pc EXCEPT ![e] = "final_w"]
        ELSE /\ mem' = [mem EXCEPT ![e] = m2]
             /\ db' = UpdateExecution(db, e, m2)
             /\ pc' = [pc EXCEPT ![e] = "step_w"]

\* context["datasets"][step.name] = df (lines 172, 192, 211, 229, 252): a
\* key that is already in the dict keeps its place, a new key comes last.
\* A dataset is named by the step that produced it.
Store(ds, name, k) ==
    LET at == {i \in 1..Len(ds) : ds[i].name = name} IN
    IF at = {} THEN Append(ds, [name |-> name, by |-> k])
    ELSE [ds EXCEPT ![CHOOSE i \in at : TRUE].by = k]

\* list(context["datasets"].keys())[-1] (line 267): the last key.
LastKey(ds) == ds[Len(ds)]

\* The external step executor returns without error.  A step that produces
\* a dataset stores it under its name.  A save step has written the dataset
\* of the last key (lines 267-278; with no dataset line 267 raises
\* IndexError and the step fails) and goes on to read the persisted
\* Execution (line 289).
StepSucceeds(e) ==
    /\ pc[e] = "step" /\ ~must_cancel[e]
    /\ IF CurrentStep(e).kind = "save"
       THEN /\ datasets[e] # <<>>
            /\ outputs' = [outputs EXCEPT ![e] =
                              Append(@, [step |-> Current(e).step,
                                         by |-> LastKey(datasets[e]).by])]
            /\ datasets' = datasets
            /\ ccopy' = ccopy
            /\ pc' = [pc EXCEPT ![e] = "save_r"]
            /\ UNCHANGED <<mem, db>>
       ELSE /\ StepDone(e)
            /\ datasets' = [datasets EXCEPT ![e] =
                               Store(@, CurrentStep(e).name, Current(e).step)]
            /\ outputs' = outputs
            /\ ccopy' = ccopy
    /\ UNCHANGED <<steps, calls_left, nexec, must_cancel, running_executions,
                   sem_value, waiters, cpc, ncancel, cancel_at, hist>>
    /\ UNCHANGED sched_vars

\* _execute_save_step, lines 289-292: the row read is written back with the
\* output path appended.
SaveRead(e) ==
    /\ pc[e] = "save_r" /\ ~must_cancel[e]
    /\ db' = UpdateExecution(db, e,
                [db[e] EXCEPT !.output_files = Append(@, Current(e).step)])
    /\ pc' = [pc EXCEPT ![e] = "save_w"]
    /\ UNCHANGED <<steps, calls_left, nexec, mem, must_cancel,
                   running_executions, sem_value, waiters, cpc, ccopy,
                   ncancel, cancel_at, hist>>
    /\ UNCHANGED <<datasets, outputs>>
    /\ UNCHANGED sched_vars

SaveWritten(e) ==
    /\ pc[e] = "save_w" /\ ~must_cancel[e]
    /\ StepDone(e)
    /\ UNCHANGED <<steps, calls_left, nexec, must_cancel, running_executions,
                   sem_value, waiters, cpc, ccopy, ncancel, cancel_at, hist>>
    /\ UNCHANGED <<datasets, outputs>>
    /\ UNCHANGED sched_vars

\* The external step executor raises err: _execute_step records it (line
\* 157), the first attempt's error is caught at line 107, a re-attempt's at
\* line 317; _handle_step_error (lines 294-318) and the check of line 109,
\* whose StepExecutionError carries the error caught at line 107; on abort
\* lines 121-132.
StepFails(e, err) ==
    /\ pc[e] = "step" /\ ~must_cancel[e]
    /\ err <= hist[e].failures + 1
    /\ LET caught == IF hist[e].attempts = 1 THEN err ELSE hist[e].caught
           sx == RecordStepError(Current(e), err)
           m2 == SetCurrent(mem[e], sx)
       IN
       /\ hist' = [hist EXCEPT ![e].failures = @ + 1, ![e].caught = caught]
       /\ IF ShouldRetry(CurrentStep(e), sx)
          THEN /\ mem' = [mem EXCEPT ![e] = m2]
               /\ pc' = [pc EXCEPT ![e] = "backoff"]
               /\ db' = db
          ELSE IF MustAbort(CurrentStep(e), sx)
          THEN LET m3 == MarkFailed(m2,
                             StepExecutionError(sx.step, caught))
               IN
               /\ mem' = [mem EXCEPT ![e] = m3]
               /\ db' = UpdateExecution(db, e, m3)
               /\ pc' = [pc EXCEPT ![e] = "final_w"]
          ELSE /\ mem' = [mem EXCEPT ![e] = m2]
               /\ db' = UpdateExecution(db, e, m2)
               /\ pc' = [pc EXCEPT ![e] = "step_w"]
    /\ UNCHANGED <<steps, calls_left, nexec, must_cancel, running_executions,
                   sem_value, waiters, cpc, ccopy, ncancel, cancel_at>>
    /\ UNCHANGED <<datasets, outputs>>
    /\ UNCHANGED sched_vars

\* A backoff wait that returns although the task has been cancelled.
Retry_IgnoresCancel(e) ==
    /\ pc[e] = "backoff"
    /\ mem' = [mem EXCEPT ![e] = SetCurrent(@, ResetForRetry(Current(e)))]
    /\ pc' = [pc EXCEPT ![e] = "step"]
    /\ hist' = [hist EXCEPT ![e].attempts = @ + 1,
                             ![e].calls = [@ EXCEPT ![Len(@)] = @ + 1]]
    /\ UNCHANGED <<steps, calls_left, nexec, db, must_cancel,
                   running_executions, sem_value, waiters, cpc, ccopy,
                   ncancel, cancel_at>>
    /\ UNCHANGED <<datasets, outputs>>
    /\ UNCHANGED sched_vars

\* asyncio.sleep(settings.retry_delay) has returned: lines 307-313.
Retry(e) ==
    /\ pc[e] = "backoff" /\ ~must_cancel[e]
    /\ mem' = [mem EXCEPT ![e] = SetCurrent(@, ResetForRetry(Current(e)))]
    /\ pc' = [pc EXCEPT ![e] = "step"]
    /\ hist' = [hist EXCEPT ![e].attempts = @ + 1,
                             ![e].calls = [@ EXCEPT ![Len(@)] = @ + 1]]
    /\ UNCHANGED <<steps, calls_left, nexec, db, must_cancel,
                   running_executions, sem_value, waiters, cpc, ccopy,
                   ncancel, cancel_at>>
    /\ UNCHANGED <<datasets, outputs>>
    /\ UNCHANGED sched_vars

\* The write of the finally block (line 132) has returned.  After a failure
\* the exception reaches _execute_pipeline_task, whose handler calls
\* _handle_execution_error (lines 63-65, 320-329); otherwise the task ends.
FinalWritten(e) ==
    /\ pc[e] = "final_w" /\ ~must_cancel[e]
    /\ IF mem[e].status = "failed"
       THEN LET m2 == MarkFailed(mem[e], mem[e].error_message) IN
            /\ mem' = [mem EXCEPT ![e] = m2]
            /\ db' = UpdateExecution(db, e, m2)
            /\ pc' = [pc EXCEPT ![e] = "err_w"]
            /\ UNCHANGED <<running_executions, sem_value>>
       ELSE /\ LeaveTask(e)
            /\ UNCHANGED <<mem, db>>
    /\ UNCHANGED <<steps, calls_left, nexec, must_cancel, waiters, cpc, ccopy,
                   ncancel, cancel_at, hist>>
    /\ UNCHANGED <<datasets, outputs>>
    /\ UNCHANGED sched_vars

\* The write of _handle_execution_error (line 329) has returned.
ErrorWritten(e) ==
    /\ pc[e] = "err_w" /\ ~must_cancel[e]
    /\ LeaveTask(e)
    /\ UNCHANGED <<steps, calls_left, nexec, mem, db, must_cancel, waiters,
                   cpc, ccopy, ncancel, cancel_at, hist>>
    /\ UNCHANGED <<datasets, outputs>>
    /\ UNCHANGED sched_vars

\* CancelledError is raised at the await the task is suspended at.  It is
\* no Exception, so no `except Exception` handler catches it.
\*  - before the task holds the semaphore: the task ends outside the
\*    try/finally of line 61, nothing is popped;
\*  - inside the try of _run_pipeline: the finally block persists the
\*    in-memory Execution as it is (line 132);
\*  - elsewhere inside the semaphore: the finally of line 66 pops the id.
ObserveCancel(e) ==
    /\ must_cancel[e]
    /\ must_cancel' = [must_cancel EXCEPT ![e] = FALSE]
    /\ IF pc[e] = "pending"
       THEN /\ pc' = [pc EXCEPT ![e] = "done"]
            /\ waiters' = SelectSeq(waiters, LAMBDA x : x # e)
            /\ UNCHANGED <<db, running_executions, sem_value>>
       ELSE IF pc[e] \in InsideTry
       THEN /\ db' = UpdateExecution(db, e, mem[e])
            /\ pc' = [pc EXCEPT ![e] = "final_w"]
            /\ UNCHANGED <<running_executions, sem_value, waiters>>
       ELSE /\ LeaveTask(e)
            /\ UNCHANGED <<db, waiters>>
    /\ UNCHANGED <<steps, calls_left, nexec, mem, cpc, ccopy, ncancel,
                   cancel_at, hist>>
    /\ UNCHANGED <<datasets, outputs>>
    /\ UNCHANGED sched_vars

\* cancel_execution(id), lines 333-338: the id is registered, the task is
\* cancelled and the persisted Execution is read.
CancelCall(e) ==
    /\ cpc[e] = "idle"
    /\ ncancel < MaxCancels
    /\ e \in running_executions
    /\ must_cancel' = [must_cancel EXCEPT ![e] = (pc[e] # "done")]
    /\ ccopy' = [ccopy EXCEPT ![e] = db[e]]
    /\ cpc' = [cpc EXCEPT ![e] = "read"]
    /\ cancel_at' = [cancel_at EXCEPT ![e] = pc[e]]
    /\ ncancel' = ncancel + 1
    /\ UNCHANGED <<steps, calls_left, nexec, mem, db, pc, running_executions,
                   sem_value, waiters, hist>>
    /\ UNCHANGED <<datasets, outputs>>
    /\ UNCHANGED sched_vars

\* cancel_execution(id), lines 333 and 349: the id is not registered, False
\* is returned and nothing is changed.
CancelUnknown(e) ==
    /\ cpc[e] = "idle"
    /\ e \notin running_executions
    /\ UNCHANGED vars

\* cancel_execution(id), lines 339-344: the copy read is marked cancelled
\* and written back.
CancelWrite(e) ==
    /\ cpc[e] = "read"
    /\ IF ccopy[e].status # "none"
       THEN db' = UpdateExecution(db, e, MarkCancelled(ccopy[e]))
       ELSE db' = db
    /\ cpc' = [cpc EXCEPT ![e] = "write"]
    /\ UNCHANGED <<steps, calls_left, nexec, mem, pc, must_cancel,
                   running_executions, sem_value, waiters, ccopy, ncancel,
                   cancel_at, hist>>
    /\ UNCHANGED <<datasets, outputs>>
    /\ UNCHANGED sched_vars

\* cancel_execution(id), lines 346-347.
CancelReturn(e) ==
    /\ cpc[e] = "write"
    /\ cpc' = [cpc EXCEPT ![e] = "idle"]
    /\ ccopy' = [ccopy EXCEPT ![e] = NoExecution]
    /\ UNCHANGED <<steps, calls_left, nexec, mem, db, pc, must_cancel,
                   running_executions, sem_value, waiters, ncancel, cancel_at,
                   hist>>
    /\ UNCHANGED <<datasets, outputs>>
    /\ UNCHANGED sched_vars

\* cleanup_completed_tasks (lines 355-363).
CleanupCompletedTasks ==
    /\ \E e \in running_executions : pc[e] = "done"
    /\ running_executions' = {e \in running_executions : pc[e] # "done"}
    /\ UNCHANGED <<steps, calls_left, nexec, mem, db, pc, must_cancel,
                   sem_value, waiters, cpc, ccopy, ncancel, cancel_at, hist>>
    /\ UNCHANGED <<datasets, outputs>>
    /\ UNCHANGED sched_vars

\* ------------------------------------------------------- scheduler: state
\* A slot of the heap that holds no object.
NullJob ==
    [pipeline_id |-> 0, schedule |-> NoSchedule, next_run |-> None,
     last_run |-> None, enabled |-> FALSE]

\* ScheduledJob(pipeline_id, ..., schedule, next_run), lines 78-81.
NewJob(pid, schedule, next_run) ==
    [pipeline_id |-> pid, schedule |-> schedule, next_run |-> next_run,
     last_run |-> None, enabled |-> TRUE]

\* Objects no longer referenced are dropped from the heap.
Collect(h, jseq, tseq) ==
    [j \in JobIds |->
        IF j \in Range(jseq) \cup Range(tseq) THEN h[j] ELSE NullJob]

FreeJobIds == JobIds \ (Range(jobs) \cup Range(todo))

\* The positions of `pid in self.jobs`.
FindJob(jseq, h, pid) == {i \in 1..Len(jseq) : h[jseq[i]].pipeline_id = pid}

Registered(pid) == FindJob(jobs, heap, pid) # {}

JobOf(pid) == jobs[CHOOSE i \in FindJob(jobs, heap, pid) : TRUE]

\* remove_pipeline_schedule (lines 85-89): the registry after the pop.
RemovePipelineSchedule(jseq, h, pid) ==
    SelectSeq(jseq, LAMBDA j : h[j].pipeline_id # pid)

\* add_pipeline_schedule (lines 71-83) of the stored pipeline pid at time t,
\* the new object taking heap slot j: the registry and the heap after it.
\* `self.jobs[pipeline.id] = job` keeps the position of a key already there.
AddPipelineSchedule(R, pid, t, j) ==
    LET schedule == pipelines[pid].schedule
        next_run == IF schedule.type = "none" THEN None
                    ELSE CalculateNextRun(schedule, t)
        at == FindJob(R.jobs, R.heap, pid)
    IN  IF schedule.type = "none" \/ next_run = None THEN R
        ELSE [jobs |-> IF at = {} THEN Append(R.jobs, j)
                       ELSE [R.jobs EXCEPT ![CHOOSE i \in at : TRUE] = j],
              heap |-> [R.heap EXCEPT ![j] = NewJob(pid, schedule, next_run)]]

\* The smallest heap slot not referenced by the sequences given.
FreeSlot(jseq, tseq) ==
    CHOOSE j \in JobIds \ (Range(jseq) \cup Range(tseq)) :
        \A k \in JobIds \ (Range(jseq) \cup Range(tseq)) : j <= k

\* _load_scheduled_pipelines (lines 63-69) from pipeline p on.
RECURSIVE LoadScheduledPipelines(_, _, _)
LoadScheduledPipelines(R, p, t) ==
    IF p > NumPipelines THEN R
    ELSE IF pipelines[p].status = "active"
            /\ pipelines[p].schedule.type # "none"
            /\ JobIds \ (Range(R.jobs) \cup Range(todo)) # {}
    THEN LoadScheduledPipelines(
             AddPipelineSchedule(R, p, t, FreeSlot(R.jobs, todo)), p + 1, t)
    ELSE LoadScheduledPipelines(R, p + 1, t)

\* No tick is running, or the running one has not dealt with a job yet.
NoTick == [what |-> "none", job |-> 0, pid |-> 0]

\* The tick did `what` to the job it is at.
Did(what) ==
    [what |-> what, job |-> Head(todo), pid |-> heap[Head(todo)].pipeline_id]

\* The callers of the scheduler run while its loop is suspended in an await.
LoopSuspended == tick_pc \in {"stopped", "sleep", "error_sleep", "trigger"}

\* The job of the running tick: the head of the jobs not yet dealt with.
Cur == Head(todo)

\* A scheduler for which every job with a next_run is due.
IsDue_Always(j) == heap[j].next_run # None

\* Line 230; a next_run of None makes the comparison raise TypeError.
IsDue(j) == heap[j].next_run # None /\ heap[j].next_run <= tick_now

\* Lines 232-233.
PipelineGone(j) ==
    LET pid == heap[j].pipeline_id IN
    pid \notin PipelineIds \/ pipelines[pid].status # "active"

\* A scheduler that does not look at end_time.
PastEndTime_Never(j) == FALSE

\* Line 238, with the now of line 223.
PastEndTime(j) ==
    heap[j].schedule.end_time # None /\ tick_now > heap[j].schedule.end_time

\* Lines 266-267: what the handler of a failed trigger does to the job.
AfterTriggerError(job, t) ==
    IF job.schedule.type # "once"
    THEN [job EXCEPT !.next_run = CalculateNextRun(job.schedule, t)]
    ELSE job

SchedInitAt(Stored, Clock) ==
    /\ now \in Clock
    /\ api_left = MaxApiCalls
    /\ pipelines \in [PipelineIds -> Stored]
    /\ jobs = <<>>
    /\ heap = [j \in JobIds |-> NullJob]
    /\ sched_running = FALSE
    /\ tick_pc = "stopped"
    /\ tick_now = None
    /\ todo = <<>>
    /\ next_tick = None
    /\ tick_did = NoTick
    /\ loop_tasks = 0

\* The scheduler of SpecSched is constructed at 10:20:30 of day 2.
SchedInit(Stored) ==
    SchedInitAt(Stored, {2 * Day + 10 * Hour + 20 * Minute + 30})

SchedIdle ==
    /\ now = 0
    /\ api_left = 0
    /\ pipelines = [p \in PipelineIds |->
                       [status |-> "active", schedule |-> NoSchedule]]
    /\ jobs = <<>>
    /\ heap = [j \in JobIds |-> NullJob]
    /\ sched_running = FALSE
    /\ tick_pc = "stopped"
    /\ tick_now = None
    /\ todo = <<>>
    /\ next_tick = None
    /\ tick_did = NoTick
    /\ loop_tasks = 0

\* ----------------------------------------------------- scheduler: actions
\* The clock advances by half an hour.
Tock ==
    /\ now + 30 * Minute
         <= 2 * Day + 10 * Hour + 20 * Minute + 30 + MaxTocks * 30 * Minute
    /\ now' = now + 30 * Minute
    /\ UNCHANGED <<api_left, pipelines, jobs, heap, sched_running, tick_pc,
                   tick_now, todo, next_tick>>
    /\ UNCHANGED tick_did
    /\ UNCHANGED loop_tasks
    /\ UNCHANGED engine_vars

\* start() (lines 42-50) on a scheduler that is not running.
Start ==
    /\ ~sched_running /\ tick_pc = "stopped"
    /\ sched_running' = TRUE
    /\ LET R == LoadScheduledPipelines([jobs |-> jobs, heap |-> heap], 1, now)
       IN  /\ jobs' = R.jobs
           /\ heap' = Collect(R.heap, R.jobs, <<>>)
    /\ tick_pc' = "sleep"
    /\ next_tick' = now
    /\ todo' = <<>>
    /\ UNCHANGED <<now, api_left, pipelines, tick_now>>
    /\ tick_did' = NoTick
    /\ loop_tasks' = loop_tasks + 1
    /\ UNCHANGED engine_vars

\* start() on a running scheduler returns at line 45.
StartAgain ==
    /\ sched_running /\ LoopSuspended
    /\ UNCHANGED vars

\* A stop() that clears the flag and leaves the loop task as it is.
Stop_NoCancel ==
    /\ sched_running /\ LoopSuspended
    /\ api_left > 0
    /\ api_left' = api_left - 1
    /\ sched_running' = FALSE
    /\ UNCHANGED <<now, pipelines, jobs, heap, tick_pc, tick_now, todo,
                   next_tick, tick_did, loop_tasks>>
    /\ UNCHANGED engine_vars

\* stop() (lines 52-61): the loop task is cancelled at its await and ends.
Stop ==
    /\ sched_running /\ LoopSuspended
    /\ api_left > 0
    /\ api_left' = api_left - 1
    /\ sched_running' = FALSE
    /\ tick_pc' = "stopped"
    /\ todo' = <<>>
    /\ heap' = Collect(heap, jobs, <<>>)
    /\ UNCHANGED <<now, pipelines, jobs, tick_now, next_tick>>
    /\ tick_did' = NoTick
    /\ loop_tasks' = IF loop_tasks > 0 THEN loop_tasks - 1 ELSE 0
    /\ UNCHANGED engine_vars

\* add_pipeline_schedule(pipeline) with the stored pipeline p.
AddJob(p) ==
    /\ LoopSuspended
    /\ api_left > 0
    /\ api_left' = api_left - 1
    /\ FreeJobIds # {}
    /\ LET R == AddPipelineSchedule([jobs |-> jobs, heap |-> heap], p, now,
                                    FreeSlot(jobs, todo))
       IN  /\ jobs' = R.jobs
           /\ heap' = Collect(R.heap, R.jobs, todo)
    /\ UNCHANGED <<now, pipelines, sched_running, tick_pc, tick_now, todo,
                   next_tick>>
    /\ UNCHANGED tick_did
    /\ UNCHANGED loop_tasks
    /\ UNCHANGED engine_vars

\* remove_pipeline_schedule(pipeline_id).
RemoveJob(p) ==
    /\ LoopSuspended
    /\ api_left > 0
    /\ api_left' = api_left - 1
    /\ jobs' = RemovePipelineSchedule(jobs, heap, p)
    /\ heap' = Collect(heap, jobs', todo)
    /\ UNCHANGED <<now, pipelines, sched_running, tick_pc, tick_now, todo,
                   next_tick>>
    /\ UNCHANGED tick_did
    /\ UNCHANGED loop_tasks
    /\ UNCHANGED engine_vars

\* An update that only adds: the old job stays when no next_run can be
\* computed, and keeps its place in the registry otherwise.
UpdateJob_AddOnly(p) == AddJob(p)

\* update_pipeline_schedule(pipeline) (lines 91-94): remove, then add.
UpdateJob(p) ==
    /\ LoopSuspended
    /\ api_left > 0
    /\ api_left' = api_left - 1
    /\ LET removed == RemovePipelineSchedule(jobs, heap, p) IN
       /\ JobIds \ (Range(removed) \cup Range(todo)) # {}
       /\ LET R == AddPipelineSchedule([jobs |-> removed, heap |-> heap], p,
                                       now, FreeSlot(removed, todo))
          IN  /\ jobs' = R.jobs
              /\ heap' = Collect(R.heap, R.jobs, todo)
    /\ UNCHANGED <<now, pipelines, sched_running, tick_pc, tick_now, todo,
                   next_tick>>
    /\ UNCHANGED tick_did
    /\ UNCHANGED loop_tasks
    /\ UNCHANGED engine_vars

\* enable_job and disable_job (lines 289-299).
SetJobEnabled(p, b) ==
    /\ LoopSuspended
    /\ api_left > 0
    /\ api_left' = api_left - 1
    /\ IF Registered(p)
       THEN heap' = [heap EXCEPT ![JobOf(p)].enabled = b]
       ELSE heap' = heap
    /\ UNCHANGED <<now, pipelines, jobs, sched_running, tick_pc, tick_now,
                   todo, next_tick>>
    /\ UNCHANGED tick_did
    /\ UNCHANGED loop_tasks
    /\ UNCHANGED engine_vars

EnableJob(p) == SetJobEnabled(p, TRUE)

DisableJob(p) == SetJobEnabled(p, FALSE)

\* The status of a stored pipeline is changed (update_pipeline,
\* delete_pipeline of the persistence layer).
SetPipelineStatus(p, st) ==
    /\ LoopSuspended
    /\ api_left > 0
    /\ api_left' = api_left - 1
    /\ pipelines[p].status # st
    /\ pipelines' = [pipelines EXCEPT ![p].status = st]
    /\ UNCHANGED <<now, jobs, heap, sched_running, tick_pc, tick_now, todo,
                   next_tick>>
    /\ UNCHANGED tick_did
    /\ UNCHANGED loop_tasks
    /\ UNCHANGED engine_vars

\* The sleep of the loop has ended (lines 211-214, 219): a tick begins with
\* `now = datetime.utcnow()` and `list(self.jobs.values())` (lines 223-225).
TickStart ==
    /\ tick_pc \in {"sleep", "error_sleep"}
    /\ sched_running
    /\ now >= next_tick
    /\ tick_pc' = "loop"
    /\ tick_now' = now
    /\ todo' = jobs
    /\ heap' = Collect(heap, jobs, jobs)
    /\ UNCHANGED <<now, api_left, pipelines, jobs, sched_running, next_tick>>
    /\ tick_did' = NoTick
    /\ UNCHANGED loop_tasks
    /\ UNCHANGED engine_vars

\* Lines 226-230: a disabled job, or one that is not due, is skipped.
TickSkip ==
    /\ tick_pc = "loop" /\ todo # <<>>
    /\ ~heap[Cur].enabled
       \/ (heap[Cur].next_run # None /\ ~IsDue(Cur))
    /\ todo' = Tail(todo)
    /\ heap' = Collect(heap, jobs, todo')
    /\ UNCHANGED <<now, api_left, pipelines, jobs, sched_running, tick_pc,
                   tick_now, next_tick>>
    /\ tick_did' = Did("skip")
    /\ UNCHANGED loop_tasks
    /\ UNCHANGED engine_vars

\* Line 230 on a next_run of None: the TypeError leaves
\* _check_and_execute_jobs and is caught at line 217; the loop sleeps 60 s
\* (line 219) with the rest of the jobs not looked at.
TickRaises ==
    /\ tick_pc = "loop" /\ todo # <<>>
    /\ heap[Cur].enabled /\ heap[Cur].next_run = None
    /\ tick_pc' = "error_sleep"
    /\ next_tick' = now + Minute
    /\ UNCHANGED <<now, api_left, pipelines, jobs, heap, sched_running,
                   tick_now, todo>>
    /\ tick_did' = Did("error")
    /\ UNCHANGED loop_tasks
    /\ UNCHANGED engine_vars

\* Lines 232-240: the pipeline is gone or inactive, or end_time has passed:
\* the job registered for the pipeline is removed.
TickRemove ==
    /\ tick_pc = "loop" /\ todo # <<>>
    /\ heap[Cur].enabled /\ IsDue(Cur)
    /\ PipelineGone(Cur) \/ PastEndTime(Cur)
    /\ jobs' = RemovePipelineSchedule(jobs, heap, heap[Cur].pipeline_id)
    /\ todo' = Tail(todo)
    /\ heap' = Collect(heap, jobs', todo')
    /\ UNCHANGED <<now, api_left, pipelines, sched_running, tick_pc, tick_now,
                   next_tick>>
    /\ tick_did' = Did("remove")
    /\ UNCHANGED loop_tasks
    /\ UNCHANGED engine_vars

\* Lines 243-247: engine.execute_pipeline is called and awaited.
TickTrigger ==
    /\ tick_pc = "loop" /\ todo # <<>>
    /\ heap[Cur].enabled /\ IsDue(Cur)
    /\ ~PipelineGone(Cur) /\ ~PastEndTime(Cur)
    /\ tick_pc' = "trigger"
    /\ UNCHANGED <<now, api_left, pipelines, jobs, heap, sched_running,
                   tick_now, todo, next_tick>>
    /\ tick_did' = Did("trigger")
    /\ UNCHANGED loop_tasks
    /\ UNCHANGED engine_vars

\* Lines 249-259: the call has returned.  The job object is updated; the
\* removals are by pipeline id.
AfterTrigger(job, t) ==
    IF job.schedule.type # "once"
    THEN [job EXCEPT !.last_run = tick_now,
                     !.next_run = CalculateNextRun(job.schedule, t)]
    ELSE [job EXCEPT !.last_run = tick_now]

RemovesAfterTrigger(job) ==
    job.schedule.type = "once" \/ job.next_run = None

TriggerReturns ==
    /\ tick_pc = "trigger"
    /\ nexec < MaxExec
    /\ ExecuteEffect(nexec + 1)
    /\ LET job == AfterTrigger(heap[Cur], now)
           h2 == [heap EXCEPT ![Cur] = job]
       IN  /\ jobs' = IF RemovesAfterTrigger(job)
                      THEN RemovePipelineSchedule(jobs, h2, job.pipeline_id)
                      ELSE jobs
           /\ todo' = Tail(todo)
           /\ heap' = Collect(h2, jobs', todo')
    /\ tick_pc' = "loop"
    /\ UNCHANGED <<steps, calls_left, must_cancel, sem_value, cpc, ccopy,
                   ncancel, cancel_at, hist, datasets, outputs>>
    /\ UNCHANGED <<now, api_left, pipelines, sched_running, tick_now,
                   next_tick>>
    /\ tick_did' = Did("returned")
    /\ UNCHANGED loop_tasks

\* Lines 261-267: the call has raised.
TriggerRaises ==
    /\ tick_pc = "trigger"
    /\ todo' = Tail(todo)
    /\ heap' = Collect([heap EXCEPT ![Cur] = AfterTriggerError(@, now)],
                       jobs, todo')
    /\ tick_pc' = "loop"
    /\ UNCHANGED <<now, api_left, pipelines, jobs, sched_running, tick_now,
                   next_tick>>
    /\ tick_did' = Did("raised")
    /\ UNCHANGED loop_tasks
    /\ UNCHANGED engine_vars

\* The for loop is over: asyncio.sleep(settings.scheduler_check_interval).
TickEnd ==
    /\ tick_pc = "loop" /\ todo = <<>>
    /\ tick_pc' = "sleep"
    /\ next_tick' = now + Minute
    /\ UNCHANGED <<now, api_left, pipelines, jobs, heap, sched_running,
                   tick_now, todo>>
    /\ tick_did' = NoTick
    /\ UNCHANGED loop_tasks
    /\ UNCHANGED engine_vars

SchedulerNext ==
    \/ Tock
    \/ Start
    \/ StartAgain
    \/ Stop
    \/ \E p \in PipelineIds : AddJob(p)
    \/ \E p \in PipelineIds : RemoveJob(p)
    \/ \E p \in PipelineIds : UpdateJob(p)
    \/ \E p \in PipelineIds : EnableJob(p)
    \/ \E p \in PipelineIds : DisableJob(p)
    \/ \E p \in PipelineIds :
          \E st \in {"active", "inactive"} : SetPipelineStatus(p, st)
    \/ TickStart
    \/ TickSkip
    \/ TickRaises
    \/ TickRemove
    \/ TickTrigger
    \/ TriggerReturns
    \/ TriggerRaises
    \/ TickEnd

EngineNext ==
    \/ ExecutePipeline
    \/ \E e \in ExecIds : Admit(e)
    \/ \E e \in ExecIds : ContinueLoop(e)
    \/ \E e \in ExecIds : StartStep(e)
    \/ \E e \in ExecIds : StepSucceeds(e)
    \/ \E e \in ExecIds : SaveRead(e)
    \/ \E e \in ExecIds : SaveWritten(e)
    \/ \E e \in ExecIds : \E err \in Errors : StepFails(e, err)
    \/ \E e \in ExecIds : Retry(e)
    \/ \E e \in ExecIds : FinalWritten(e)
    \/ \E e \in ExecIds : ErrorWritten(e)
    \/ \E e \in ExecIds : ObserveCancel(e)
    \/ \E e \in ExecIds : CancelCall(e)
    \/ \E e \in ExecIds : CancelUnknown(e)
    \/ \E e \in ExecIds : CancelWrite(e)
    \/ \E e \in ExecIds : CancelReturn(e)
    \/ CleanupCompletedTasks

\* The pipelines run concurrently by up to MaxExec executions: one step that
\* is retried, or one save step that is not.
ConcurrentStepLists ==
    {<<[enabled |-> TRUE, retry_on_failure |-> TRUE, max_retries |-> 2,
        kind |-> "load", name |-> 1]>>,
     <<[enabled |-> TRUE, retry_on_failure |-> FALSE, max_retries |-> 0,
        kind |-> "load", name |-> 1],
       [enabled |-> TRUE, retry_on_failure |-> FALSE, max_retries |-> 0,
        kind |-> "save", name |-> 2]>>}

\* Every pipeline of up to MaxSteps steps.
AllStepLists ==
    UNION {{s \in [1..n -> StepConfigs] : \A k \in 1..n : s[k].name = k} :
              n \in 1..MaxSteps}

Init == EngineInit(ConcurrentStepLists, MaxExec) /\ SchedIdle

Next == EngineNext

\* Up to MaxExec executions of one pipeline, run and cancelled concurrently.
Spec == Init /\ [][Next]_vars

InitRetry == EngineInit(AllStepLists, 1) /\ SchedIdle

\* One execution of any pipeline of up to MaxSteps steps.
SpecRetry == InitRetry /\ [][Next]_vars

\* Every pipeline of up to MaxNamedSteps enabled steps, each a load or a save
\* step with any of the names, retried on failure up to twice.
NamedStepLists ==
    UNION {[1..n -> {c \in StepConfigs : /\ c.enabled /\ c.retry_on_failure
                                         /\ c.max_retries = 2}] :
              n \in 1..MaxNamedSteps}

InitData == EngineInit(NamedStepLists, 1) /\ SchedIdle

\* One execution of a pipeline whose steps can share their names.
SpecData == InitData /\ [][Next]_vars

\* settings.execution_timeout, in seconds.
ExecutionTimeout == Hour

\* Time passes while the engine runs: half an hour at a time, up to
\* MaxWait half hours.
EngineTock ==
    /\ now + 30 * Minute <= MaxWait * 30 * Minute
    /\ now' = now + 30 * Minute
    /\ UNCHANGED <<api_left, pipelines, jobs, heap, sched_running, tick_pc,
                   tick_now, todo, next_tick, tick_did, loop_tasks>>
    /\ UNCHANGED engine_vars

\* The steps of the task of execution e and of a cancel call on it that the
\* event loop takes by itself: everything but the calls from outside
\* (execute_pipeline, cancel_execution, cleanup_completed_tasks) and the
\* return of the external step executor.
TaskStep(e) ==
    \/ Admit(e)
    \/ ContinueLoop(e)
    \/ StartStep(e)
    \/ SaveRead(e)
    \/ SaveWritten(e)
    \/ Retry(e)
    \/ FinalWritten(e)
    \/ ErrorWritten(e)
    \/ ObserveCancel(e)
    \/ CancelWrite(e)
    \/ CancelReturn(e)

InitTimeout == EngineInit(ConcurrentStepLists, 1) /\ SchedIdle

TimeoutNext == EngineNext \/ EngineTock

\* One execution while time passes: the event loop runs every task that can
\* go on, and the clock goes on; nothing makes a step call return.
SpecTimeout ==
    /\ InitTimeout
    /\ [][TimeoutNext]_vars
    /\ WF_vars(EngineTock)
    /\ \A e \in ExecIds : WF_vars(TaskStep(e))

\* The schedules of the stored pipelines of SpecSched: none, once at once,
\* hourly, and hourly until 11:30:30 of the day the clock starts on.
SchedSchedules ==
    {NoSchedule,
     [NoSchedule EXCEPT !.type = "once"],
     [NoSchedule EXCEPT !.type = "hourly"],
     [NoSchedule EXCEPT !.type = "hourly",
                        !.end_time = 2 * Day + 11 * Hour + 30 * Minute + 30]}

StoredPipelines == [status : {"active"}, schedule : SchedSchedules]

InitSched ==
    /\ EngineInit({<<>>}, 0)
    /\ SchedInit(StoredPipelines)

\* The scheduler and its callers; the executions it triggers are created
\* and registered, their run tasks are the subject of Spec.
SpecSched == InitSched /\ [][SchedulerNext]_vars

\* The values datetime.utcnow() takes in the recurrence specification: every
\* second from 23:59:00 of day 2 on, across the minute, the hour and midnight,
\* and 10:00:00 of day 2. Day 0 is Monday 2024-01-01.
RecurTimes ==
    {2 * Day + 23 * Hour + 59 * Minute + s : s \in 0..(RecurSeconds - 1)}
        \cup {2 * Day + 10 * Hour}

\* "* * * * *"
CronEveryMinute == <<Star, Star, Star, Star, Star>>

EveryMinuteSchedule ==
    [NoSchedule EXCEPT !.type = "cron", !.cron_expression = CronEveryMinute]

\* ScheduleConfig.interval: absent, 1 or 2 units.
RecurIntervals == {None, 1, 2}

\* ScheduleConfig.start_time: absent; 03:00 of day 1 (past); 00:00:30 of
\* day 3 (past for some values of now, future for others); 11:30 of day 9
\* (the week after); 10:00 of day 40 (the month after).
RecurStarts ==
    {None, Day + 3 * Hour, 3 * Day + 30, 9 * Day + 11 * Hour + 30 * Minute,
     40 * Day + 10 * Hour}

UnitTypes == {"hourly", "daily", "weekly", "monthly"}

\* The schedules of type hourly, daily, weekly and monthly.
UnitSchedules ==
    {[NoSchedule EXCEPT !.type = ty, !.interval = i, !.start_time = st] :
        ty \in UnitTypes, i \in RecurIntervals, st \in RecurStarts}

\* The minute and hour fields of the cron expressions with a numeric time:
\* 00:00, 10:00, 12:30 and 23:59.
CronTimes == {<<0, 0>>, <<0, 10>>, <<30, 12>>, <<59, 23>>}

\* The day, month and weekday fields: all "*", or "15", another text, "3".
CronRests == {<<Star, Star, Star>>, <<Num(15), Other, Num(3)>>}

\* The cron schedules "m h ..." with numeric m and h.
TimedCronSchedules ==
    {[NoSchedule EXCEPT !.type = "cron",
                        !.cron_expression = <<Num(mh[1]), Num(mh[2])>> \o rest] :
        mh \in CronTimes, rest \in CronRests}

\* The schedules of the stored pipelines in the recurrence specification.
RecurSchedules ==
    {EveryMinuteSchedule} \cup UnitSchedules \cup TimedCronSchedules

RecurPipelines == [status : {"active"}, schedule : RecurSchedules]

\* Pipeline 1 carries any of the schedules, the other pipelines the
\* every-minute one.
InitRecur ==
    /\ EngineInit({<<>>}, 0)
    /\ SchedInitAt(RecurPipelines, RecurTimes)
    /\ \A p \in PipelineIds \ {1} : pipelines[p].schedule = EveryMinuteSchedule

\* The callers of the registry while no loop runs: each registration applies
\* _calculate_next_run to the pipeline's schedule at the time of the call.
RecurNext ==
    \/ \E p \in PipelineIds : AddJob(p)
    \/ \E p \in PipelineIds : RemoveJob(p)
    \/ \E p \in PipelineIds : UpdateJob(p)

SpecRecur == InitRecur /\ [][RecurNext]_vars

\* ================================================================== claims
StepExecutions(e) == 1..Len(mem[e].steps)

EnabledSteps == {k \in 1..Len(steps) : steps[k].enabled}

\* No cancel_execution call ever found the id of e.
NeverCancelled(e) == cancel_at[e] = "none"

\* C1: at every instant the number of Executions whose status is running, in
\* memory and in the persisted records, is at most the limiter capacity.
C1_ConcurrencyBound ==
    /\ Cardinality({e \in ExecIds : mem[e].status = "running"}) <= Capacity
    /\ Cardinality({e \in ExecIds : db[e].status = "running"}) <= Capacity

C6_OnceRemoved ==
    [][(/\ tick_pc = "trigger" /\ tick_pc' = "loop"
        /\ heap[Cur].schedule.type = "once")
       => Cur \notin Range(jobs')
      ]_vars

\* C7: when the trigger call for a registered recurring job has raised, the
\* job is still registered and its next_run is a time later than now.
C7_FailedTriggerAdvances ==
    [][(/\ tick_pc = "trigger" /\ tick_pc' = "loop" /\ nexec' = nexec
        /\ heap[Cur].schedule.type # "once"
        /\ Cur \in Range(jobs))
       => /\ Cur \in Range(jobs')
          /\ heap'[Cur].next_run # None
          /\ heap'[Cur].next_run > now
      ]_vars

\* C8: no tick is abandoned: whenever the loop sleeps between two ticks,
\* the tick before has dealt with every job of the registry.
C8_TickLoopGoesOn ==
    /\ tick_pc # "error_sleep"
    /\ tick_pc = "sleep" => todo = <<>>

\* C11: a call of execute is never made to wait, whatever the limiter and
\* the running executions are at, and what it does is to create the
\* Execution pending, in memory and persisted, and to queue its task: no slot
\* is taken and no other execution is touched.
C11_ExecuteNeverWaits ==
    /\ []((calls_left > 0 /\ nexec < MaxExec) => ENABLED ExecutePipeline)
    /\ [][nexec' # nexec
           => /\ mem'[nexec'] = NewExecution
              /\ db'[nexec'] = NewExecution
              /\ pc'[nexec'] = "pending"
              /\ sem_value' = sem_value
              /\ \A o \in ExecIds \ {nexec'} :
                    mem'[o] = mem[o] /\ db'[o] = db[o] /\ pc'[o] = pc[o]
         ]_vars

\* The limiter is full, Capacity executions are in the middle of a step,
\* none is waiting, and execute can be called.
C11_Witness ==
    /\ sem_value = 0 /\ waiters = <<>>
    /\ Cardinality({e \in ExecIds : pc[e] = "step"}) = Capacity
    /\ calls_left > 0
    /\ ENABLED ExecutePipeline

\* The positions of the enabled steps of the pipeline, in declared order.
EnabledSeq ==
    SelectSeq([k \in 1..Len(steps) |-> k], LAMBDA k : steps[k].enabled)

GetRunningExecutions == running_executions

\* C15: the ids get_running_executions returns are those of the Executions
\* whose status is running, no more and no fewer.
C15_ListedIffRunning ==
    \A e \in ExecIds :
        e \in GetRunningExecutions <=> mem[e].status = "running"

\* C16: whenever a step leaves a recurring job in the registry with a
\* next_run it did not have before, that next_run is a time later than now;
\* and the next_run of a recurring job that is still registered after its
\* trigger is later than the one it was triggered at.
C16_NextRunAdvances ==
    [][\A j \in Range(jobs') :
          heap'[j].schedule.type # "once"
          => /\ (j \notin Range(jobs) \/ heap'[j].next_run # heap[j].next_run)
                => /\ heap'[j].next_run # None
                   /\ heap'[j].next_run > now
             /\ (tick_pc = "trigger" /\ tick_pc' = "loop" /\ j = Cur)
                => heap'[j].next_run > heap[j].next_run
      ]_vars

\* C17: while the scheduler is started, a pipeline has a job in the registry
\* if and only if it is active and carries a schedule.
C17_RegisteredIffActive ==
    sched_running
    => \A p \in PipelineIds :
          Registered(p) <=> /\ pipelines[p].status = "active"
                            /\ pipelines[p].schedule.type # "none"

\* C9: an Execution whose status is completed, failed or cancelled keeps
\* that status, in memory and in the persisted record.
C9_TerminalIsFinal ==
    [][\A e \in ExecIds :
          /\ mem[e].status \in TerminalStatus
               => mem'[e].status = mem[e].status
          /\ db[e].status \in TerminalStatus
               => db'[e].status = db[e].status
      ]_vars

\* C10: cancel(id) finds its id, and goes on to return true, exactly when
\* the execution is running: admitted and not yet finished.
C10_CancelIffRunning ==
    \A e \in ExecIds :
        /\ cpc[e] # "idle" => cancel_at[e] \in InsideSemaphore
        /\ pc[e] \in InsideSemaphore => e \in running_executions

\* C18: on a tick the scheduler calls the engine for a job only if the job is
\* enabled and its next_run is at or before the time the tick read; a job that
\* is disabled, or whose next_run is after that time, is passed over: the tick
\* moves to the next job, the registry and the job's fields stay as they are
\* and no execution is created.
C18_TriggerOnlyDue ==
    [][/\ (tick_pc = "loop" /\ tick_pc' = "trigger")
          => /\ heap[Cur].enabled
             /\ heap[Cur].next_run # None
             /\ heap[Cur].next_run <= tick_now
             /\ heap[Cur].next_run <= now
       /\ ( /\ tick_pc = "loop" /\ todo # <<>>
            /\ \/ ~heap[Cur].enabled
               \/ (heap[Cur].next_run # None /\ heap[Cur].next_run > tick_now)
            /\ (todo' # todo \/ tick_pc' # tick_pc) )
          => /\ tick_pc' = "loop" /\ todo' = Tail(todo)
             /\ jobs' = jobs
             /\ nexec' = nexec
             /\ Cur \in Range(jobs) => heap'[Cur] = heap[Cur]]_vars

\* A tick has just passed over a registered job that is due but disabled, and
\* no execution exists.
C18_Witness ==
    /\ tick_did.what = "skip"
    /\ tick_did.job \in Range(jobs)
    /\ ~heap[tick_did.job].enabled
    /\ heap[tick_did.job].next_run # None
    /\ heap[tick_did.job].next_run <= tick_now
    /\ nexec = 0

EveryMinuteJobs ==
    {j \in Range(jobs) : /\ heap[j].schedule.type = "cron"
                         /\ heap[j].schedule.cron_expression = CronEveryMinute}

UnitJobs == {j \in Range(jobs) : heap[j].schedule.type \in UnitTypes}

\* The anchor of a schedule at the time now: start_time if it is in the
\* future, else now.
Anchor(schedule) ==
    IF schedule.start_time # None /\ schedule.start_time > now
    THEN schedule.start_time ELSE now

\* The length of the unit of an hourly, daily or weekly schedule. Day 0 is a
\* Monday, so the Monday midnights are the multiples of Week.
UnitOf(type) ==
    IF type = "hourly" THEN Hour ELSE IF type = "daily" THEN Day ELSE Week

\* The first instant of the n-th month, counted from January of year 0.
FirstOfMonth(n) == MonthStartDay(n \div 12, (n % 12) + 1) * Day

\* C21: for an hourly, daily, weekly or monthly schedule with interval i
\* (1 when absent), next_run is later than now and is the anchor truncated to
\* the unit boundary plus k * i units, for the smallest k >= 0 that makes it
\* later than now.
C21_UnitRecurrence ==
    \A j \in UnitJobs :
        LET schedule == heap[j].schedule
            i == IF schedule.interval = None THEN 1 ELSE schedule.interval
            a == Anchor(schedule)
            r == heap[j].next_run
        IN  /\ r # None /\ r > now
            /\ IF schedule.type = "monthly"
               THEN \E n \in (2024 * 12)..(2024 * 12 + 3) :
                    \E k \in 0..RecurMaxK :
                        /\ FirstOfMonth(n) <= a /\ a < FirstOfMonth(n + 1)
                        /\ r = FirstOfMonth(n + k * i)
                        /\ k > 0 => FirstOfMonth(n + (k - 1) * i) <= now
               ELSE LET unit == UnitOf(schedule.type)
                        b == a - (a % unit)
                    IN  \E k \in 0..RecurMaxK :
                            /\ r = b + k * i * unit
                            /\ k > 0 => b + (k - 1) * i * unit <= now

\* The example of the claim: a daily schedule with start_time 03:00 of the
\* day before, registered at 10:00, has its next_run at the next midnight.
C21_Witness ==
    /\ now = 2 * Day + 10 * Hour
    /\ \E j \in UnitJobs :
        /\ heap[j].schedule.type = "daily"
        /\ heap[j].schedule.interval = 1
        /\ heap[j].schedule.start_time = Day + 3 * Hour
        /\ heap[j].next_run = 3 * Day

\* The registered jobs whose cron expression has five fields with a numeric
\* minute and a numeric hour.
TimedCronJobs ==
    {j \in Range(jobs) :
        /\ heap[j].schedule.type = "cron"
        /\ Len(heap[j].schedule.cron_expression) = 5
        /\ heap[j].schedule.cron_expression[1].kind = "num"
        /\ heap[j].schedule.cron_expression[2].kind = "num"}

\* C22: for a cron expression "m h ..." with numeric m and h, next_run is the
\* first instant later than now whose time of day is h:m:00, today or
\* tomorrow, whatever the other three fields are.
C22_CronTimeOfDay ==
    \A j \in TimedCronJobs :
        LET parts == heap[j].schedule.cron_expression
            r == heap[j].next_run
        IN  /\ r # None
            /\ r % Day = parts[2].n * Hour + parts[1].n * Minute
            /\ r > now
            /\ r - Day <= now
            /\ r \div Day \in {now \div Day, (now \div Day) + 1}

\* "0 10 15 x 3" registered at 10:00:00 has its next_run at 10:00 of the
\* next day.
C22_Witness ==
    /\ now = 2 * Day + 10 * Hour
    /\ \E j \in TimedCronJobs :
        /\ heap[j].schedule.cron_expression
             = <<Num(0), Num(10), Num(15), Other, Num(3)>>
        /\ heap[j].next_run = 3 * Day + 10 * Hour

OneAtATime(sxs) ==
    \A i \in 1..Len(sxs) :
        /\ sxs[i].status = "running" => i = Len(sxs)
        /\ i < Len(sxs) => sxs[i].status = "completed"

\* C24: in the Execution of a run, in memory and as persisted, at most one
\* StepExecution is running and it is the last of the list; the task is
\* inside a step call only for the last entry, which is then running; and a
\* StepExecution is appended only for the next enabled step of the pipeline,
\* after the entry before it has been completed.
C24_StepsSequential ==
    /\ [](\A e \in ExecIds :
            /\ OneAtATime(mem[e].steps)
            /\ OneAtATime(db[e].steps)
            /\ pc[e] = "step"
               => mem[e].steps # <<>> /\ Current(e).status = "running")
    /\ [][\A e \in ExecIds :
            mem'[e].steps # mem[e].steps /\ Len(mem'[e].steps) # Len(mem[e].steps)
            => LET old == mem[e].steps
                   new == mem'[e].steps
                   prev == IF old = <<>> THEN 0 ELSE old[Len(old)].step
               IN  /\ Len(new) = Len(old) + 1
                   /\ \A i \in 1..Len(old) : new[i] = old[i]
                   /\ old # <<>> => old[Len(old)].status = "completed"
                   /\ new[Len(new)].status = "running"
                   /\ new[Len(new)].step \in EnabledSteps
                   /\ new[Len(new)].step > prev
                   /\ \A k \in EnabledSteps :
                        ~(prev < k /\ k < new[Len(new)].step)]_vars

\* The run of a pipeline with two enabled steps is inside the call of the
\* second step: the first StepExecution is completed, the second running.
C24_Witness ==
    \E e \in ExecIds :
        /\ pc[e] = "step"
        /\ Len(mem[e].steps) = 2
        /\ mem[e].steps[1].status = "completed"
        /\ mem[e].steps[2].status = "running"
        /\ db[e].steps = mem[e].steps

\* The list new holds every entry of the list old, at the same position.
Extends(new, old) ==
    /\ Len(new) >= Len(old)
    /\ \A i \in 1..Len(old) : new[i].step = old[i].step

\* C25: no step of the program (the run task, a save step, a cancel call)
\* takes a StepExecution away from an Execution or moves one: the list after
\* the step holds every entry of the list before it at the same position, in
\* memory and in the persisted row.
C25_StepListOnlyGrows ==
    [][\A e \in ExecIds :
          /\ Extends(mem'[e].steps, mem[e].steps)
          /\ Extends(db'[e].steps, db[e].steps)]_vars

\* A save step has written its output path to the persisted row and a
\* cancel call made during the step has written its copy back: the row still
\* holds the StepExecution of the save step.
C25_Witness ==
    \E e \in ExecIds :
        /\ cpc[e] = "write"
        /\ cancel_at[e] = "save_w"
        /\ db[e].status = "cancelled"
        /\ db[e].steps # <<>>
        /\ steps[db[e].steps[Len(db[e].steps)].step].kind = "save"
        /\ db[e].steps = mem[e].steps

\* The run of execution e has gone on for longer than the execution timeout.
Overdue(e) ==
    /\ hist[e].started # None
    /\ pc[e] # "done"
    /\ now - hist[e].started > ExecutionTimeout

\* C26: when the run of an execution has gone on for longer than the
\* execution timeout, its task is eventually cancelled or ends.
C26_TimeoutCancels ==
    \A e \in ExecIds : Overdue(e) ~> (must_cancel[e] \/ pc[e] = "done")

\* C27: once cancel_execution has been called for an execution, its task
\* starts no step and no attempt: no StepExecution is appended, no step call
\* is entered, the count of attempts stays, and the in-memory StepExecutions
\* and the persisted StepExecutions of completed steps stay as they are.
C27_NothingStartsAfterCancel ==
    [][\A e \in ExecIds :
          cancel_at[e] # "none"
          => /\ mem'[e].steps = mem[e].steps
             /\ hist'[e] = hist[e]
             /\ pc'[e] = "step" => pc[e] = "step"
             /\ pc'[e] = "backoff" => pc[e] = "backoff"
             /\ Len(db'[e].steps) = Len(db[e].steps)
             /\ \A i \in 1..Len(db[e].steps) :
                    db[e].steps[i].status = "completed"
                    => db'[e].steps[i] = db[e].steps[i]]_vars

\* cancel_execution was called during the backoff wait after the first
\* failure of the second step, and the task has ended: the first step is
\* completed, the second was attempted once.
C27_Witness ==
    \E e \in ExecIds :
        /\ cancel_at[e] = "backoff"
        /\ pc[e] = "done"
        /\ Len(mem[e].steps) = 2
        /\ mem[e].steps[1].status = "completed"
        /\ mem[e].steps[2].retry_count = 1
        /\ hist[e].attempts = 1
        /\ db[e].steps[1].status = "completed"

\* The task fails an attempt of its current step, or starts a re-attempt.
FailsOrRetries(e) ==
    \/ hist'[e].failures > hist[e].failures
    \/ pc[e] = "backoff" /\ pc'[e] = "step"

ProducedBefore(e, k) ==
    {mem[e].steps[i].step : i \in
        {i \in 1..Len(mem[e].steps) : /\ mem[e].steps[i].step < k
                                      /\ mem[e].steps[i].status = "completed"
                                      /\ steps[mem[e].steps[i].step].kind # "save"}}

UnsupportedCrons ==
    {<<Num(0), Num(10), Star, Star>>,
     <<Star, Star, Star, Star, Star, Star>>,
     <<>>,
     <<Other, Num(10), Star, Star, Star>>,
     <<Star, Num(10), Star, Star, Star>>,
     <<Num(30), Star, Star, Star, Star>>,
     <<Star, Star, Star, Star, Num(1)>>}

UnsupportedCronSchedules ==
    {[NoSchedule EXCEPT !.type = "cron", !.cron_expression = c] :
        c \in UnsupportedCrons}

\* Pipeline 1 carries an unsupported cron schedule, the other pipelines the
\* schedules of SpecSched.
InitCron ==
    /\ EngineInit({<<>>}, 0)
    /\ SchedInit([status : {"active"},
                  schedule : SchedSchedules \cup UnsupportedCronSchedules])
    /\ pipelines[1].schedule \in UnsupportedCronSchedules
    /\ \A p \in PipelineIds \ {1} : pipelines[p].schedule \in SchedSchedules

SpecCron == InitCron /\ [][SchedulerNext]_vars

\* The schedule is of type cron and its expression does not have exactly 5
\* fields, or is neither all "*" nor has a numeric minute and hour.
Unsupported(schedule) ==
    /\ schedule.type = "cron"
    /\ LET parts == schedule.cron_expression IN
       \/ Len(parts) # 5
       \/ /\ \E i \in 1..5 : parts[i] # Star
          /\ ~(parts[1].kind = "num" /\ parts[2].kind = "num")

\* C30: a pipeline with an unsupported cron schedule has no recurrence at
\* any time; no job object of it exists, in the registry or in a running
\* tick; the tick never triggers it; and add_pipeline_schedule and
\* update_pipeline_schedule for it return, leaving no job for it.
C30_UnsupportedCronNoJob ==
    /\ [](\A p \in PipelineIds :
            Unsupported(pipelines[p].schedule)
            => /\ CalculateNextRun(pipelines[p].schedule, now) = None
               /\ ~Registered(p)
               /\ \A j \in JobIds : heap[j] # NullJob => heap[j].pipeline_id # p
               /\ tick_did.pid # p
               /\ (LoopSuspended /\ api_left > 0 /\ FreeJobIds # {})
                  => ENABLED <<AddJob(p)>>_api_left)
    /\ [][\A p \in PipelineIds :
            (Unsupported(pipelines[p].schedule) /\ (AddJob(p) \/ UpdateJob(p)))
            => jobs' = jobs /\ heap' = heap]_vars

\* The scheduler was started with an unsupported 5-field cron schedule on
\* pipeline 1, which loaded every pipeline through add_pipeline_schedule;
\* pipeline 2 got its job and is being triggered, pipeline 1 has none.
C30_Witness ==
    /\ sched_running
    /\ Unsupported(pipelines[1].schedule)
    /\ Len(pipelines[1].schedule.cron_expression) = 5
    /\ ~Registered(1)
    /\ Registered(2)
    /\ tick_did.what = "trigger"
    /\ tick_did.pid = 2

\* The schedules of type once: no start_time, 03:00 of day 1 (past) or
\* 11:00 of day 2 (after the clock's first value), with no end_time or one at
\* 10:00 (past) or 10:40 of day 2.
OnceStarts == {None, Day + 3 * Hour, 2 * Day + 11 * Hour}

OnceEnds == {None, 2 * Day + 10 * Hour, 2 * Day + 10 * Hour + 40 * Minute}

OnceSchedules ==
    {[NoSchedule EXCEPT !.type = "once", !.start_time = st, !.end_time = et] :
        st \in OnceStarts, et \in OnceEnds}

\* Pipeline 1 carries a schedule of type once, the other pipelines the
\* schedules of SpecSched.
InitOnce ==
    /\ EngineInit({<<>>}, 0)
    /\ SchedInit([status : {"active"},
                  schedule : SchedSchedules \cup OnceSchedules])
    /\ pipelines[1].schedule \in OnceSchedules
    /\ \A p \in PipelineIds \ {1} : pipelines[p].schedule \in SchedSchedules

SpecOnce == InitOnce /\ [][SchedulerNext]_vars

\* What the recurrence of a once schedule is said to be at time t.
OnceRecurrence(schedule, t) ==
    LET st == schedule.start_time
        et == schedule.end_time
        anchor == IF st # None /\ st > t THEN st ELSE t
    IN  IF et # None /\ anchor > et THEN None
        ELSE IF st # None THEN st ELSE t

\* The jobs of type once that exist.
OnceJobs == {j \in JobIds : heap[j] # NullJob /\ heap[j].schedule.type = "once"}

C32_StopHaltsLoop ==
    /\ [](/\ loop_tasks <= 1
          /\ sched_running => loop_tasks = 1
          /\ ~sched_running
             => /\ loop_tasks = 0
                /\ tick_pc = "stopped"
                /\ todo = <<>>
                /\ tick_did = NoTick)
    /\ [][/\ (~sched_running /\ ~sched_running')
             => /\ nexec' = nexec
                /\ tick_pc' = "stopped"
                /\ tick_did' = NoTick
                /\ tick_now' = tick_now
                /\ (jobs' # jobs \/ heap' # heap) => api_left' < api_left
          /\ (~sched_running /\ sched_running') => Start
          /\ StartAgain => UNCHANGED vars]_vars

\* The scheduler was stopped after a tick; more than a tick interval later
\* the registry still holds an enabled job of an active pipeline that is due.
C32_Witness ==
    /\ ~sched_running
    /\ tick_now # None
    /\ now > tick_now + Minute
    /\ \E i \in 1..Len(jobs) :
          /\ heap[jobs[i]].enabled
          /\ heap[jobs[i]].next_run # None
          /\ heap[jobs[i]].next_run <= now
          /\ pipelines[heap[jobs[i]].pipeline_id].status = "active"
          /\ heap[jobs[i]].schedule.end_time = None

\* The ScheduledJob objects of a registry, in dict order.
JobRecords(jseq, h) == [i \in 1..Len(jseq) |-> h[jseq[i]]]

\* What remove_pipeline_schedule(p) followed by add_pipeline_schedule of
\* the stored pipeline p leaves of the registry at time t: the jobs of the
\* other pipelines in their order, then a new job if there is a next_run.
RemoveThenAdd(p, t) ==
    LET others == SelectSeq(JobRecords(jobs, heap),
                            LAMBDA job : job.pipeline_id # p)
        schedule == pipelines[p].schedule
        next_run == IF schedule.type = "none" THEN None
                    ELSE CalculateNextRun(schedule, t)
    IN  IF next_run = None THEN others
        ELSE Append(others, [pipeline_id |-> p, schedule |-> schedule,
                             next_run |-> next_run, last_run |-> None,
                             enabled |-> TRUE])

\* C33: update_pipeline_schedule leaves the registry as removing the
\* pipeline's job and then adding the pipeline does: the jobs of the other
\* pipelines as they were and in their order, followed by a new job of the
\* pipeline that is enabled, has no last_run and carries the next_run
\* computed at the call, or by nothing when no next_run can be computed.
C33_UpdateIsRemoveThenAdd ==
    [][\A p \in PipelineIds :
          UpdateJob(p)
          => /\ JobRecords(jobs', heap') = RemoveThenAdd(p, now)
             /\ \A i \in 1..Len(jobs') :
                   heap'[jobs'[i]].pipeline_id = p
                   => /\ i = Len(jobs')
                      /\ heap'[jobs'[i]].enabled
                      /\ heap'[jobs'[i]].last_run = None
                      /\ heap'[jobs'[i]].next_run # None
                      /\ jobs'[i] \notin Range(todo)]_vars

\* The tick is suspended in a trigger call, with the disabled job object of
\* pipeline 1 still in its list; the registry holds a new job of pipeline 1
\* behind the job of pipeline 2: enabled and with no last_run.
C33_Witness ==
    /\ tick_pc = "trigger"
    /\ Len(jobs) = 2
    /\ heap[jobs[1]].pipeline_id = 2
    /\ heap[jobs[2]].pipeline_id = 1
    /\ heap[jobs[2]].enabled
    /\ heap[jobs[2]].last_run = None
    /\ \E j \in Range(todo) :
          /\ j # jobs[2]
          /\ heap[j].pipeline_id = 1
          /\ ~heap[j].enabled

\* The external step executor returns: the step call succeeds or raises.
StepReturns(e) ==
    \/ StepSucceeds(e)
    \/ \E err \in Errors : StepFails(e, err)

\* The engine under fair scheduling: the event loop runs every task and
\* every cancel call that can go on, and every step call returns. Nothing
\* in the repository calls cleanup_completed_tasks, so it is not fair.
SpecLive ==
    /\ Init
    /\ [][Next]_vars
    /\ \A e \in ExecIds : WF_vars(TaskStep(e))
    /\ \A e \in ExecIds : WF_vars(StepReturns(e))

\* C34: every Execution that execute_pipeline has created is eventually
\* persisted with a terminal status and out of running_executions.
C34_EveryExecutionEnds ==
    \A e \in ExecIds :
        (pc[e] # "none")
            ~> (db[e].status \in TerminalStatus /\ e \notin running_executions)

\* The tasks that are inside a run: admitted and not yet out of the
\* `async with` block.
InsideRun == {e \in ExecIds : pc[e] \in InsideSemaphore}

\* C35: the slots taken from the semaphore are as many as the tasks inside
\* a run, so the free slots are the capacity once no task is active; a task
\* takes one slot when it is admitted, gives one back when it leaves the
\* run by any path, and a task cancelled while waiting takes none.
C35_SlotsMatchTasks ==
    /\ [](/\ sem_value \in 0..Capacity
          /\ Capacity - sem_value = Cardinality(InsideRun)
          /\ (\A e \in ExecIds : pc[e] \in {"none", "done"})
             => sem_value = Capacity)
    /\ [][\A e \in ExecIds :
            /\ (pc[e] = "pending" /\ pc'[e] \in InsideSemaphore)
               => sem_value' = sem_value - 1
            /\ (pc[e] \in InsideSemaphore /\ pc'[e] = "done")
               => sem_value' = sem_value + 1
            /\ (pc[e] = "pending" /\ pc'[e] = "done")
               => sem_value' = sem_value]_vars

\* Three runs have ended, one completed, one failed at a step and one
\* cancelled while it was running, and every slot is free.
C35_Witness ==
    /\ \A e \in ExecIds : pc[e] = "done"
    /\ sem_value = Capacity
    /\ \E e \in ExecIds : mem[e].status = "completed"
    /\ \E e \in ExecIds : mem[e].status = "failed"
    /\ \E e \in ExecIds : cancel_at[e] \in InsideSemaphore
                          /\ mem[e].status = "running"

\* C36: every job of the registry has a next_run, and no tick is ended by
\* the comparison of line 230 failing on a job.
C36_NextRunDefined ==
    /\ \A i \in 1..Len(jobs) : heap[jobs[i]].next_run # None
    /\ tick_did.what # "error"

\* C37: when the trigger call of a tick ends and the job it was made for is
\* no longer the registered one, because a caller has removed or replaced
\* it in the meantime, the tick leaves the registry as the caller left it.
C37_TickKeepsNewJob ==
    [][(/\ tick_pc = "trigger" /\ tick_pc' = "loop"
        /\ Cur \notin Range(jobs))
       => JobRecords(jobs', heap') = JobRecords(jobs, heap)]_vars

C39_NotBeforeStartTime ==
    \A j \in UnitJobs :
        (heap[j].schedule.start_time # None
            /\ heap[j].schedule.start_time > now)
        => heap[j].next_run >= heap[j].schedule.start_time

\* One execution of every pipeline of one or two steps, under fair
\* scheduling and with step calls that return.
SpecRetryLive ==
    /\ InitRetry
    /\ [][Next]_vars
    /\ \A e \in ExecIds : WF_vars(TaskStep(e))
    /\ \A e \in ExecIds : WF_vars(StepReturns(e))

\* The most calls of _execute_step a step can get in one run.
MaxAttempts(step) ==
    IF step.retry_on_failure /\ step.max_retries >= 1
    THEN step.max_retries ELSE 1

\* C40: a step is called at most max(1, max_retries) times in one run, and
\* at most once without retry_on_failure or with max_retries = 0; a
\* StepExecution that has ended was called at least once; a re-attempt is
\* made only after a failure, with retry_count below max_retries; and a
\* task that is in a step call or in the wait before a re-attempt
\* eventually is in neither.
C40_RetryLoopTerminates ==
    /\ [](\A e \in ExecIds : \A i \in 1..Len(mem[e].steps) :
            LET step == steps[mem[e].steps[i].step] IN
            /\ hist[e].calls[i] <= MaxAttempts(step)
            /\ mem[e].steps[i].status \in {"completed", "failed"}
               => hist[e].calls[i] >= 1)
    /\ [][\A e \in ExecIds :
            (pc[e] = "backoff" /\ pc'[e] = "step")
            => /\ CurrentStep(e).retry_on_failure
               /\ Current(e).status = "failed"
               /\ Current(e).retry_count < CurrentStep(e).max_retries
               /\ hist'[e].calls[Len(hist'[e].calls)]
                    = Current(e).retry_count + 1]_vars
    /\ \A e \in ExecIds :
          (pc[e] \in {"step", "backoff"}) ~> (pc[e] \notin {"step", "backoff"})

\* A step with max_retries = 3 has failed at its initial attempt and at two
\* re-attempts, and the run has ended.
C40_Witness ==
    \E e \in ExecIds :
        /\ pc[e] = "done" /\ NeverCancelled(e)
        /\ steps[1].retry_on_failure /\ steps[1].max_retries = 3
        /\ hist[e].calls = <<3>>
        /\ mem[e].steps[1].status = "failed"
        /\ mem[e].steps[1].retry_count = 3

====
